---- MODULE Spec2Model ----
(***************************************************************************)
(* Model of the doc-agent service: the FastAPI upload handler of           *)
(* src/api.py on top of the OllamaFileChat session and the FileProcessor   *)
(* of src/ollama_file_chat.py.                                             *)
(*                                                                         *)
(* Text is modelled as a sequence of units.  File names and paths are      *)
(* sequences of one-character strings.  Model output is a sequence of      *)
(* lexemes (punctuation, string / number literals, stray characters), and  *)
(* json.loads is a recursive-descent parser over it.                       *)
(***************************************************************************)
EXTENDS Integers, Sequences, FiniteSets, TLC

VARIABLES
    file_chat,   \* the global OllamaFileChat session (api.py, file_chat)
    fs,          \* paths of the temporary files that exist on disk
    req,         \* per request: where its handler is suspended, and its upload
    last,        \* outcome of the most recent operation (what its caller saw)
    recent_load  \* history: what the most recent load_file call that returned
                 \* True loaded, and the path it was given

vars == <<file_chat, fs, req, last, recent_load>>

-----------------------------------------------------------------------------
(* Python values *)

\* Optional[str] None, for values that are character sequences.
None == <<"None">>

Min(a, b) == IF a < b THEN a ELSE b

\* s[:n]
Prefix(s, n) == SubSeq(s, 1, Min(Len(s), n))

\* str.lower() on one character; only the letters the inputs use.
LowerChar(c) ==
    CASE c = "R" -> "r"
      [] c = "P" -> "p"
      [] c = "D" -> "d"
      [] c = "F" -> "f"
      [] OTHER -> c

Lower(s) == [i \in 1..Len(s) |-> LowerChar(s[i])]

\* Last position of character c in s, 0 when absent (str.rfind, 1-based).
RECURSIVE RFind(_, _, _)
RFind(s, c, i) ==
    IF i = 0 THEN 0
    ELSE IF s[i] = c THEN i
    ELSE RFind(s, c, i - 1)

\* pathlib: PurePath.name, the final path component.
PathName(p) == SubSeq(p, RFind(p, "/", Len(p)) + 1, Len(p))

\* pathlib: PurePath.suffix, the final component's last dot and what follows
\* it; empty when there is no dot, or the dot leads or ends the name.
PathSuffix(p) ==
    LET name == PathName(p)
        j    == RFind(name, ".", Len(name))
    IN  IF 1 < j /\ j < Len(name) THEN SubSeq(name, j, Len(name)) ELSE <<>>

-----------------------------------------------------------------------------
(* FileProcessor *)

ExtTxt  == <<".", "t", "x", "t">>
ExtMd   == <<".", "m", "d">>
ExtPdf  == <<".", "p", "d", "f">>
ExtDocx == <<".", "d", "o", "c", "x">>
ExtDoc  == <<".", "d", "o", "c">>

\* The keys of FileProcessor.supported_extensions, in insertion order.
SupportedKeys == <<ExtTxt, ExtMd, ExtPdf, ExtDocx, ExtDoc>>

\* The loader each key is bound to.
LoaderOf(ext) ==
    CASE ext = ExtTxt  -> "_load_text_file"
      [] ext = ExtMd   -> "_load_markdown_file"
      [] ext = ExtPdf  -> "_load_pdf_file"
      [] ext = ExtDocx -> "_load_word_file"
      [] ext = ExtDoc  -> "_load_word_file"

InSeq(x, s) == \E i \in 1..Len(s) : s[i] = x

\* OllamaFileChat.get_supported_formats: list(supported_extensions.keys()).
get_supported_formats == SupportedKeys

\* The bytes of a file: the encoding they decode under, the document format
\* they are well-formed in, the text they hold and their length in bytes.
Bodies ==
    { [enc |-> "utf8", fmt |-> "plain", text |-> <<>>,                size |-> 0],
      [enc |-> "utf8", fmt |-> "plain", text |-> <<"#", "A", "x">>,   size |-> 128],
      [enc |-> "gbk",  fmt |-> "plain", text |-> <<"#", "B">>,        size |-> 1536],
      [enc |-> "none", fmt |-> "pdf",   text |-> <<"P", "1">>,        size |-> 2049],
      [enc |-> "none", fmt |-> "word",  text |-> <<"W">>,             size |-> 700] }

Failed(e) == [ok |-> FALSE, exc |-> e]
Returned(v) == [ok |-> TRUE, val |-> v]

\* FileProcessor._load_text_file: utf-8 first, gbk on UnicodeDecodeError.
load_text_file(body) ==
    IF body.enc = "utf8" THEN Returned(body.text)
    ELSE IF body.enc = "gbk" THEN Returned(body.text)
    ELSE Failed("UnicodeDecodeError")

\* What the structure-aware Markdown loader keeps: the text without markup.
StripMarkup(text) == SelectSeq(text, LAMBDA c : c # "#")

\* FileProcessor._load_markdown_file: the structured loader, and the plain
\* text loader on any failure of it (md_ok: the structured loader works).
load_markdown_file(body, md_ok) ==
    IF md_ok /\ body.fmt = "plain" /\ body.enc # "none"
    THEN Returned(StripMarkup(body.text))
    ELSE load_text_file(body)

\* FileProcessor._load_pdf_file
load_pdf_file(body) ==
    IF body.fmt = "pdf" THEN Returned(body.text) ELSE Failed("PdfLoadError")

\* FileProcessor._load_word_file
load_word_file(body) ==
    IF body.fmt = "word" THEN Returned(body.text) ELSE Failed("WordLoadError")

\* Call of the loader bound to an extension.
Dispatch(loader, body, md_ok) ==
    CASE loader = "_load_text_file"     -> load_text_file(body)
      [] loader = "_load_markdown_file" -> load_markdown_file(body, md_ok)
      [] loader = "_load_pdf_file"      -> load_pdf_file(body)
      [] loader = "_load_word_file"     -> load_word_file(body)

\* A result together with the steps the call went through to get it.
Did(r, steps) == [steps |-> steps] @@ r

\* FileProcessor.load_file with the extension examined before the path.
FileProcessor_load_file_SuffixFirst(exists, path, body, md_ok) ==
    LET file_extension == Lower(PathSuffix(path))
    IN  IF ~InSeq(file_extension, SupportedKeys)
        THEN Did(Failed("UnsupportedType"), <<"suffix">>)
        ELSE IF ~exists
        THEN Did(Failed("FileNotFound"), <<"suffix", "os.path.exists">>)
        ELSE LET loader_func == LoaderOf(file_extension)
                 r == Dispatch(loader_func, body, md_ok)
             IN  Did(IF r.ok THEN r ELSE Failed("LoadError"),
                     <<"suffix", "os.path.exists", loader_func>>)

\* FileProcessor.load_file on a path, given whether it exists and its bytes:
\* the existence test, then the extension, then the loader bound to it.
FileProcessor_load_file(exists, path, body, md_ok) ==
    IF ~exists THEN Did(Failed("FileNotFound"), <<"os.path.exists">>)
    ELSE LET file_extension == Lower(PathSuffix(path))
         IN  IF ~InSeq(file_extension, SupportedKeys)
             THEN Did(Failed("UnsupportedType"), <<"os.path.exists", "suffix">>)
             ELSE LET loader_func == LoaderOf(file_extension)
                      r == Dispatch(loader_func, body, md_ok)
                  IN  Did(IF r.ok THEN r ELSE Failed("LoadError"),
                          <<"os.path.exists", "suffix", loader_func>>)

BytesPerKB == 1024

\* f"{st_size / 1024:.2f} KB": the size in hundredths of a KB, rounded half
\* to even, as <<whole, hundredths>>.
FormatKB(size) ==
    LET q == (size * 100) \div BytesPerKB
        r == (size * 100) % BytesPerKB
        h == IF 2 * r > BytesPerKB \/ (2 * r = BytesPerKB /\ q % 2 = 1)
             THEN q + 1 ELSE q
    IN  <<h \div 100, h % 100>>

\* FileProcessor.get_file_info, the entry the handler reads.
get_file_info(exists, body) ==
    IF ~exists THEN Failed("FileNotFound") ELSE Returned(FormatKB(body.size))

-----------------------------------------------------------------------------
(* OllamaFileChat *)

\* OllamaFileChat.__init__: no document.
NewSession == [current_file_content |-> None, current_file_path |-> None]

\* The guard without the None case.
NoContent_EmptyOnly(session) == session.current_file_content = <<>>

\* `not self.current_file_content`: None and the empty string are both falsy.
NoContent(session) ==
    session.current_file_content = None \/ session.current_file_content = <<>>

\* OllamaFileChat.load_file: <<returned value, session afterwards>>.  The two
\* fields are assigned as soon as FileProcessor.load_file has returned; the
\* get_file_info call for the printed line follows inside the same try, on a
\* path that may be gone by then (info_exists).
Session_load_file(session, exists, info_exists, path, body, md_ok) ==
    LET r == FileProcessor_load_file(exists, path, body, md_ok)
    IN  IF r.ok /\ get_file_info(info_exists, body).ok
        THEN <<TRUE, [current_file_content |-> r.val, current_file_path |-> path]>>
        ELSE IF r.ok
        THEN <<FALSE, [current_file_content |-> r.val, current_file_path |-> path]>>
        ELSE <<FALSE, session>>

\* What a load_file call that returns True was asked to load: the text
\* FileProcessor.load_file gives for the file, and the path of the call.
DocumentOf(path, body, md_ok) ==
    [current_file_content |-> FileProcessor_load_file(TRUE, path, body, md_ok).val,
     current_file_path    |-> path]

-----------------------------------------------------------------------------
(* Model output text and json.loads *)

\* Lexemes of a text.
P(c)  == [p |-> c]      \* punctuation: { } [ ] : ,
S(x)  == [s |-> x]      \* a string literal
N(n)  == [n |-> n]      \* an integer literal
W(x)  == [w |-> x]      \* the word null
G(c)  == [g |-> c]      \* any other character

\* JSON values as Python holds them.
JStr(x)  == [str |-> x]
JInt(n)  == [int |-> n]
JNull    == [null |-> TRUE]
JArr(a)  == [arr |-> a]
JObj(f)  == [obj |-> f]

IsStr(v)  == "str" \in DOMAIN v
IsInt(v)  == "int" \in DOMAIN v
IsNull(v) == "null" \in DOMAIN v
IsArr(v)  == "arr" \in DOMAIN v
IsObj(v)  == "obj" \in DOMAIN v

IsP(t, i, c) == i <= Len(t) /\ "p" \in DOMAIN t[i] /\ t[i].p = c

ParseFail(i) == [ok |-> FALSE, pos |-> i]
ParseOk(v, i) == [ok |-> TRUE, val |-> v, next |-> i]

\* dict item assignment: a later duplicate key replaces the earlier one.
DictSet(f, k, v) == [x \in DOMAIN f \cup {k} |-> IF x = k THEN v ELSE f[x]]

RECURSIVE ParseValue(_, _), ParseElems(_, _, _), ParseMembers(_, _, _)

\* One JSON value starting at lexeme i.
ParseValue(t, i) ==
    IF i > Len(t) THEN ParseFail(i)
    ELSE LET k == t[i] IN
         IF "s" \in DOMAIN k THEN ParseOk(JStr(k.s), i + 1)
         ELSE IF "n" \in DOMAIN k THEN ParseOk(JInt(k.n), i + 1)
         ELSE IF "w" \in DOMAIN k THEN ParseOk(JNull, i + 1)
         ELSE IF IsP(t, i, "[")
              THEN IF IsP(t, i + 1, "]") THEN ParseOk(JArr(<<>>), i + 2)
                   ELSE ParseElems(t, i + 1, <<>>)
         ELSE IF IsP(t, i, "{")
              THEN IF IsP(t, i + 1, "}") THEN ParseOk(JObj(<<>>), i + 2)
                   ELSE ParseMembers(t, i + 1, <<>>)
         ELSE ParseFail(i)

\* The elements of an array, after its "[" or a ",".
ParseElems(t, i, acc) ==
    LET v == ParseValue(t, i) IN
    IF ~v.ok THEN v
    ELSE IF IsP(t, v.next, ",") THEN ParseElems(t, v.next + 1, Append(acc, v.val))
    ELSE IF IsP(t, v.next, "]") THEN ParseOk(JArr(Append(acc, v.val)), v.next + 1)
    ELSE ParseFail(v.next)

\* The members of an object, after its "{" or a ",".
ParseMembers(t, i, acc) ==
    IF ~(i <= Len(t) /\ "s" \in DOMAIN t[i]) THEN ParseFail(i)
    ELSE IF ~IsP(t, i + 1, ":") THEN ParseFail(i + 1)
    ELSE LET v == ParseValue(t, i + 2) IN
         IF ~v.ok THEN v
         ELSE LET f == DictSet(acc, t[i].s, v.val) IN
              IF IsP(t, v.next, ",") THEN ParseMembers(t, v.next + 1, f)
              ELSE IF IsP(t, v.next, "}") THEN ParseOk(JObj(f), v.next + 1)
              ELSE ParseFail(v.next)

\* json.loads: one value spanning the whole text, else JSONDecodeError with
\* the position it gives.
json_loads(t) ==
    LET r == ParseValue(t, 1) IN
    IF ~r.ok THEN [ok |-> FALSE, exc |-> [msg |-> "Expecting", pos |-> r.pos]]
    ELSE IF r.next # Len(t) + 1
    THEN [ok |-> FALSE, exc |-> [msg |-> "Extra data", pos |-> r.next]]
    ELSE [ok |-> TRUE, val |-> r.val]

-----------------------------------------------------------------------------
(* The model backend and the session's derived operations *)

\* The fixed reply of the ask-style operations on a session without content.
PleaseLoadText == <<G("please load a file first")>>

\* The fixed reply of extract_document_sections on a session without
\* content: the text {"sections": []}.
EmptySectionsText == <<P("{"), S("sections"), P(":"), P("["), P("]"), P("}")>>

RECURSIVE AfterQuote(_, _)
\* The rest of an exception message inside a JSON string literal: every
\* double quote of the message ends or starts a literal.
AfterQuote(m, i) ==
    IF i > Len(m) THEN <<>>
    ELSE IF i % 2 = 0 THEN <<G(m[i])>> \o AfterQuote(m, i + 1)
    ELSE <<S(m[i])>> \o AfterQuote(m, i + 1)

\* f'{{"error": "文档结构提取时出错: {str(e)}"}}' for an exception whose
\* message m is given as its pieces between double quotes.
ErrorJsonText(m) ==
    <<P("{"), S("error"), P(":"), S("extract failed: " \o m[1])>>
        \o AfterQuote(m, 2) \o <<P("}")>>

\* f"分析文件时出错: {str(e)}"
AskErrorText(m) == <<G("analysis failed")>> \o [i \in 1..Len(m) |-> G(m[i])]

AskBudget == 3000

\* OllamaFileChat.extract_document_sections: the text returned, the number
\* of llm.invoke calls made, the messages sent and whether llm.invoke raised.
\* llm is the backend's behaviour on a call: [raw |-> text] or
\* [exc |-> message].
Session_extract_document_sections(session, llm) ==
    IF NoContent(session)
    THEN [text |-> EmptySectionsText, calls |-> 0, sent |-> <<>>, raised |-> FALSE]
    ELSE LET messages == [system |-> "sections prompt",
                          human  |-> session.current_file_content]
         IN  IF "raw" \in DOMAIN llm
             THEN [text |-> llm.raw, calls |-> 1, sent |-> <<messages>>,
                   raised |-> FALSE]
             ELSE [text |-> ErrorJsonText(llm.exc), calls |-> 1, sent |-> <<messages>>,
                   raised |-> TRUE]

\* OllamaFileChat.ask_about_file
Session_ask_about_file(session, question, llm) ==
    IF NoContent(session)
    THEN [text |-> PleaseLoadText, calls |-> 0, sent |-> <<>>]
    ELSE LET messages ==
                 [system |-> [path    |-> session.current_file_path,
                              content |-> Prefix(session.current_file_content, AskBudget)],
                  human  |-> question]
         IN  IF "raw" \in DOMAIN llm
             THEN [text |-> llm.raw, calls |-> 1, sent |-> <<messages>>]
             ELSE [text |-> AskErrorText(llm.exc), calls |-> 1, sent |-> <<messages>>]

\* summarize_file, analyze_file_structure, extract_key_points: the guard,
\* then ask_about_file with the operation's fixed question.
Session_fixed_question(session, question, llm) ==
    IF NoContent(session)
    THEN [text |-> PleaseLoadText, calls |-> 0, sent |-> <<>>]
    ELSE Session_ask_about_file(session, question, llm)

FixedQuestionOps == {"summarize_file", "analyze_file_structure", "extract_key_points"}

-----------------------------------------------------------------------------
(* The upload handler, api.py extract_document_sections *)

HTTP_400_BAD_REQUEST == 400
HTTP_422_UNPROCESSABLE_ENTITY == 422
HTTP_500_INTERNAL_SERVER_ERROR == 500
HTTP_200_OK == 200
ExcerptLen == 200

HTTPException(code, d) == [status |-> code, detail |-> d]

\* `file.filename or ""`
FilenameOrEmpty(filename) == IF filename = None THEN <<>> ELSE filename

\* The format check left out.
IsSupportedFormat_Unchecked(file_extension) == TRUE

\* `file_extension not in supported_formats`, negated.
IsSupportedFormat(file_extension) == InSeq(file_extension, get_supported_formats)

\* The response to an upload of an unsupported format.
UnsupportedFormatError(file_extension) ==
    HTTPException(HTTP_400_BAD_REQUEST,
                  [kind |-> "unsupported format", ext |-> file_extension,
                   formats |-> get_supported_formats])

\* The strings model output uses, as Python sees them.
ContainsErrorWord(x) == x = "error"
CharsOf(x) == IF x = "" THEN <<>> ELSE <<JStr("a"), JStr("b")>>
IsNumericStr(x) == x \in {"1", "2", "3"}
IntOfStr(x) == CASE x = "1" -> 1 [] x = "2" -> 2 [] x = "3" -> 3

\* The error key honoured only where there are no sections.
ContainsError_UnlessSections(data) ==
    IF IsObj(data)
    THEN Returned("error" \in DOMAIN data.obj /\ "sections" \notin DOMAIN data.obj)
    ELSE Failed("TypeError")

\* `"error" in sections_data`
ContainsError(data) ==
    IF IsObj(data) THEN Returned("error" \in DOMAIN data.obj)
    ELSE IF IsArr(data) THEN Returned(InSeq(JStr("error"), data.arr))
    ELSE IF IsStr(data) THEN Returned(ContainsErrorWord(data.str))
    ELSE Failed("TypeError")

\* x[key] for a string key
GetItem(x, key) ==
    IF IsObj(x)
    THEN IF key \in DOMAIN x.obj THEN Returned(x.obj[key]) ELSE Failed("KeyError")
    ELSE Failed("TypeError")

\* sections_data.get("sections", [])
GetSections(data) ==
    IF IsObj(data)
    THEN Returned(IF "sections" \in DOMAIN data.obj THEN data.obj["sections"]
                  ELSE JArr(<<>>))
    ELSE Failed("AttributeError")

\* What a for loop over x visits.
SetToSeq(ks) == CHOOSE q \in [1..Cardinality(ks) -> ks] : \A k \in ks : InSeq(k, q)
Iterate(x) ==
    IF IsArr(x) THEN Returned(x.arr)
    ELSE IF IsObj(x) THEN Returned([i \in 1..Cardinality(DOMAIN x.obj) |->
                                        JStr(SetToSeq(DOMAIN x.obj)[i])])
    ELSE IF IsStr(x) THEN Returned(CharsOf(x.str))
    ELSE Failed("TypeError")

\* A field declared int: an int, or a string of digits, is taken as the int.
IntField(v) ==
    IF IsInt(v) THEN Returned(v.int)
    ELSE IF IsStr(v) /\ IsNumericStr(v.str) THEN Returned(IntOfStr(v.str))
    ELSE Failed("ValidationError")

\* A field declared str.
StrField(v) == IF IsStr(v) THEN Returned(v.str) ELSE Failed("ValidationError")

\* DocumentSection(index=..., title=..., content=...) from one element.
DocumentSection(section_data) ==
    LET i == GetItem(section_data, "index")
        t == GetItem(section_data, "title")
        c == GetItem(section_data, "content")
    IN  IF ~i.ok THEN i
        ELSE IF ~t.ok THEN t
        ELSE IF ~c.ok THEN c
        ELSE IF ~(IntField(i.val).ok /\ StrField(t.val).ok /\ StrField(c.val).ok)
        THEN Failed("ValidationError")
        ELSE Returned([index   |-> IntField(i.val).val,
                       title   |-> StrField(t.val).val,
                       content |-> StrField(c.val).val])

RECURSIVE BuildFrom(_, _, _)
BuildFrom(items, i, acc) ==
    IF i > Len(items) THEN [ok |-> TRUE, val |-> acc, built |-> Len(acc)]
    ELSE LET d == DocumentSection(items[i]) IN
         IF ~d.ok THEN [ok |-> FALSE, exc |-> d.exc, built |-> Len(acc)]
         ELSE BuildFrom(items, i + 1, Append(acc, d.val))

\* The loop with each new section put in front of the list.
BuildSections_Prepending(items) ==
    LET b == BuildFrom(items, 1, <<>>) IN
    IF ~b.ok THEN b
    ELSE [b EXCEPT !.val = [i \in 1..Len(b.val) |-> b.val[Len(b.val) + 1 - i]]]

\* The loop numbering the sections itself.
BuildSections_Renumbering(items) ==
    LET b == BuildFrom(items, 1, <<>>) IN
    IF ~b.ok THEN b
    ELSE [b EXCEPT !.val = [i \in 1..Len(b.val) |-> [b.val[i] EXCEPT !.index = i]]]

\* The loop that builds the response's sections, in the order visited.
BuildSections(items) == BuildFrom(items, 1, <<>>)

\* The except clauses of the handler, for an exception other than
\* HTTPException.
ProcessingError(exc) ==
    HTTPException(HTTP_500_INTERNAL_SERVER_ERROR,
                  [kind |-> "processing error", exc |-> exc])

\* The inner try block: from json.loads to the response, with the number of
\* DocumentSection objects built on the way.
RespondTo(sections_json, filename, file_size) ==
    LET parsed == json_loads(sections_json) IN
    IF ~parsed.ok
    THEN [response |-> HTTPException(HTTP_500_INTERNAL_SERVER_ERROR,
                          [kind |-> "bad model output", exc |-> parsed.exc,
                           excerpt |-> Prefix(sections_json, ExcerptLen)]),
          built |-> 0]
    ELSE LET data == parsed.val
             has  == ContainsError(data)
         IN
         IF ~has.ok THEN [response |-> ProcessingError(has.exc), built |-> 0]
         ELSE IF has.val
         THEN LET e == GetItem(data, "error") IN
              IF e.ok
              THEN [response |-> HTTPException(HTTP_500_INTERNAL_SERVER_ERROR,
                                    [kind |-> "model error", error |-> e.val]),
                    built |-> 0]
              ELSE [response |-> ProcessingError(e.exc), built |-> 0]
         ELSE LET got == GetSections(data) IN
              IF ~got.ok THEN [response |-> ProcessingError(got.exc), built |-> 0]
              ELSE LET items == Iterate(got.val) IN
                   IF ~items.ok
                   THEN [response |-> ProcessingError(items.exc), built |-> 0]
                   ELSE LET b == BuildSections(items.val) IN
                        IF ~b.ok
                        THEN [response |-> ProcessingError(b.exc), built |-> b.built]
                        ELSE [response |->
                                 [status |-> HTTP_200_OK,
                                  sections |-> b.val,
                                  file_name |-> filename,
                                  file_size |-> file_size,
                                  processing_status |-> "success"],
                              built |-> b.built]

\* The finally clause: the files on disk after it.
Cleanup(files, temp_file_path, unlink_ok) ==
    IF temp_file_path # None /\ temp_file_path # <<>> /\ temp_file_path \in files
    THEN IF unlink_ok THEN files \ {temp_file_path} ELSE files
    ELSE files

-----------------------------------------------------------------------------
(* Inputs: uploads, model output, the environment *)

MaxSections == 2

Filenames ==
    { <<"a", ".", "t", "x", "t">>,
      <<"n", ".", "m", "d">>,
      <<"R", ".", "P", "D", "F">>,
      <<"w", ".", "d", "o", "c", "x">>,
      <<"o", ".", "d", "o", "c">>,
      <<"d", ".", "c", "s", "v">>,
      <<"f">>,
      <<".", "t", "x", "t">>,
      <<"m", ".", "d", "/", "y">>,
      None }

\* Every body under a supported name; one body under the other names, of
\* which the handler reads nothing.
Uploads ==
    { u \in [filename : Filenames, body : Bodies] :
        \/ InSeq(Lower(PathSuffix(IF u.filename = None THEN <<>> ELSE u.filename)),
                 SupportedKeys)
        \/ u.body.size = 128 }

RECURSIVE Join(_, _)
\* The texts of a sequence, separated by commas.
Join(texts, i) ==
    IF i > Len(texts) THEN <<>>
    ELSE IF i = Len(texts) THEN texts[i]
    ELSE texts[i] \o <<P(",")>> \o Join(texts, i + 1)

\* The text of an array / an object whose members are <<key, text>> pairs.
TArr(texts) == <<P("[")>> \o Join(texts, 1) \o <<P("]")>>
TObj(members) ==
    <<P("{")>>
        \o Join([i \in 1..Len(members) |-> <<S(members[i][1]), P(":")>> \o members[i][2]], 1)
        \o <<P("}")>>

Idx(t) == <<"index", t>>
Ttl(t) == <<"title", t>>
Cnt(t) == <<"content", t>>

\* Elements as the prompt asks for them.
GoodElems ==
    { TObj(<<Idx(<<N(1)>>), Ttl(<<S("A")>>), Cnt(<<S("x")>>)>>),
      TObj(<<Idx(<<N(2)>>), Ttl(<<S("B")>>), Cnt(<<S("")>>)>>) }

\* Elements that break the format in one way.
BadElems ==
    { TObj(<<Ttl(<<S("A")>>), Cnt(<<S("x")>>)>>),
      TObj(<<Idx(<<S("3")>>), Ttl(<<S("C")>>), Cnt(<<S("y")>>)>>),
      TObj(<<Idx(<<S("x")>>), Ttl(<<S("A")>>), Cnt(<<S("x")>>)>>),
      TObj(<<Idx(<<W("null")>>), Ttl(<<S("A")>>), Cnt(<<S("x")>>)>>),
      TObj(<<Idx(<<N(1)>>), Cnt(<<S("x")>>)>>),
      TObj(<<Idx(<<N(1)>>), Ttl(<<W("null")>>), Cnt(<<S("x")>>)>>),
      TObj(<<Idx(<<N(1)>>), Ttl(<<S("A")>>)>>),
      TObj(<<Idx(<<N(1)>>), Ttl(<<S("A")>>), Cnt(<<W("null")>>)>>),
      <<S("A")>> }

\* The list the prompt's numbering gives n sections.
Numbered(n) ==
    [i \in 1..n |-> TObj(<<Idx(<<N(i)>>), Ttl(<<S("A")>>), Cnt(<<S("x")>>)>>)]

\* Lists of up to MaxSections elements: of good elements in any order, and
\* numbered lists with one element replaced by a bad one.
SectionLists ==
    UNION { [1..n -> GoodElems] : n \in 0..MaxSections }
    \cup UNION { { [Numbered(n) EXCEPT ![p] = b] : p \in 1..n, b \in BadElems } :
                   n \in 1..MaxSections }

Sec(l) == <<"sections", TArr(l)>>
OneGood == <<TObj(<<Idx(<<N(1)>>), Ttl(<<S("A")>>), Cnt(<<S("x")>>)>>)>>
Stray(n) == [i \in 1..n |-> G("x")]

\* What the model may answer.
RawOutputs ==
    { TObj(<<Sec(l)>>) : l \in SectionLists }
    \cup { TObj(<<<<"error", <<S("boom")>>>>>>),
           TObj(<<<<"error", <<S("boom")>>>>, Sec(OneGood)>>),
           TObj(<<Sec(OneGood), <<"error", <<W("null")>>>>>>),
           TObj(<<>>),
           TObj(<<<<"note", <<N(1)>>>>>>),
           TObj(<<<<"sections", <<W("null")>>>>>>),
           TObj(<<<<"sections", TObj(<<>>)>>>>),
           TObj(<<<<"sections", <<S("")>>>>>>),
           TObj(<<<<"sections", <<S("ab")>>>>>>),
           TObj(<<<<"sections", <<N(7)>>>>>>),
           TArr(<<>>),
           TArr(<<<<S("error")>>>>),
           <<S("error")>>,
           <<N(7)>>,
           <<W("null")>>,
           <<>>,
           Stray(1),
           Stray(ExcerptLen),
           Stray(ExcerptLen + 1),
           Stray(3) \o TObj(<<Sec(OneGood)>>),
           TObj(<<Sec(OneGood)>>) \o Stray(ExcerptLen),
           <<P("{"), S("sections"), P(":"), P("[")>> }

\* Messages of the exceptions llm.invoke raises, in pieces between quotes.
ErrMsgs == { <<"timeout">>, <<"host ", "x", " refused">> }

\* The backend's behaviour on the one call of an extraction.
LlmOutcomes == [raw : RawOutputs] \cup [exc : ErrMsgs]

\* The backend's behaviour on the call of an ask-style operation.
AskOutcomes == { [raw |-> <<G("answer")>>], [exc |-> <<"timeout">>] }

Questions == {"q"}

\* Names tempfile gives a new file, before the suffix.
TmpStems == << <<"t", "1">>, <<"t", "2">> >>

\* tempfile.NamedTemporaryFile(suffix=..., delete=False): a name no file has.
NewTempName(files, suffix) ==
    LET free == { n \in DOMAIN TmpStems : TmpStems[n] \o suffix \notin files }
    IN  TmpStems[CHOOSE n \in free : \A m \in free : n <= m] \o suffix

Reqs == {"r1", "r2"}

\* The requests a client that waits for each response has in flight.
SerialReqs == {"r1"}

-----------------------------------------------------------------------------
(* State machine *)

Idle == [pc |-> "idle"]

\* After startup_event: the session is constructed, no request is in flight.
Init ==
    /\ file_chat = NewSession
    /\ fs = {}
    /\ req = [r \in Reqs |-> Idle]
    /\ last = [op |-> "startup"]
    /\ recent_load = NewSession

\* What the caller of the upload endpoint saw, and what the handler did.
UploadOutcome(r, up, created, load_ok, ex, built, response) ==
    [op |-> "upload", req |-> r, upload |-> up, created |-> created,
     load_ok |-> load_ok, extracted |-> ex # <<>>, extraction |-> ex,
     built |-> built, response |-> response]

\* The handler up to its await: the format check, then the read of the
\* upload, at which the request is suspended.
Begin(r, up) ==
    /\ req[r].pc = "idle"
    /\ LET file_extension == Lower(PathSuffix(FilenameOrEmpty(up.filename))) IN
       IF ~IsSupportedFormat(file_extension)
       THEN /\ last' = UploadOutcome(r, up, None, FALSE, <<>>, 0,
                                     UnsupportedFormatError(file_extension))
            /\ UNCHANGED <<file_chat, fs, req, recent_load>>
       ELSE /\ req' = [req EXCEPT ![r] = [pc |-> "reading", upload |-> up,
                                          file_extension |-> file_extension]]
            /\ last' = [op |-> "await read", req |-> r]
            /\ UNCHANGED <<file_chat, fs, recent_load>>

\* The handler with an extraction that reads the document the session held
\* when the request was resumed, where it held one.
AfterRead_StaleSession(session, files, r, up, path, write_ok, md_ok, llm, unlink_ok) ==
    IF ~write_ok
    THEN \* temp_file_path is still None
         [session |-> session,
          files   |-> Cleanup(files \cup {path}, None, unlink_ok),
          outcome |-> UploadOutcome(r, up, path, FALSE, <<>>, 0,
                                    ProcessingError("OSError"))]
    ELSE LET written == files \cup {path}
             loaded  == Session_load_file(session, path \in written, path \in written,
                                          path, up.body, md_ok)
         IN
         IF ~loaded[1]
         THEN [session |-> loaded[2],
               files   |-> Cleanup(written, path, unlink_ok),
               outcome |-> UploadOutcome(r, up, path, FALSE, <<>>, 0,
                              HTTPException(HTTP_422_UNPROCESSABLE_ENTITY,
                                            [kind |-> "cannot load"]))]
         ELSE LET file_info == get_file_info(path \in written, up.body)
                  ex        == Session_extract_document_sections(
                                  IF NoContent(session) THEN loaded[2] ELSE session, llm)
                  result    == RespondTo(ex.text, up.filename, file_info.val)
              IN  [session |-> loaded[2],
                   files   |-> Cleanup(written, path, unlink_ok),
                   outcome |-> UploadOutcome(r, up, path, TRUE, <<ex>>,
                                             result.built, result.response)]

\* The handler from the temporary file to its end, finally clause included:
\* the session and the files it leaves, and its outcome.  path is the name
\* tempfile gives the new file; write_ok, md_ok and unlink_ok say whether the
\* write of the content, the structured Markdown loader and os.unlink work.
AfterRead(session, files, r, up, path, write_ok, md_ok, llm, unlink_ok) ==
    IF ~write_ok
    THEN \* temp_file_path is still None
         [session |-> session,
          files   |-> Cleanup(files \cup {path}, None, unlink_ok),
          outcome |-> UploadOutcome(r, up, path, FALSE, <<>>, 0,
                                    ProcessingError("OSError"))]
    ELSE LET written == files \cup {path}
             loaded  == Session_load_file(session, path \in written, path \in written,
                                          path, up.body, md_ok)
         IN
         IF ~loaded[1]
         THEN [session |-> loaded[2],
               files   |-> Cleanup(written, path, unlink_ok),
               outcome |-> UploadOutcome(r, up, path, FALSE, <<>>, 0,
                              HTTPException(HTTP_422_UNPROCESSABLE_ENTITY,
                                            [kind |-> "cannot load"]))]
         ELSE LET file_info == get_file_info(path \in written, up.body)
                  ex        == Session_extract_document_sections(loaded[2], llm)
                  result    == RespondTo(ex.text, up.filename, file_info.val)
              IN  [session |-> loaded[2],
                   files   |-> Cleanup(written, path, unlink_ok),
                   outcome |-> UploadOutcome(r, up, path, TRUE, <<ex>>,
                                             result.built, result.response)]

\* Stands for the backend where the handler does not reach it.
NotCalled == [exc |-> <<"not called">>]

\* Whether a disk operation of this request works.  The service is followed
\* up to the first file a failure leaves behind, and on from there without
\* further failures.
MayFail == IF fs = {} THEN BOOLEAN ELSE {TRUE}

\* The handler resumed after the read, run to its end (it does not await
\* again: load_file, get_file_info and llm.invoke are plain calls), with the
\* backend answering one of outcomes.
ResumeWith(r, outcomes) ==
    /\ req[r].pc = "reading"
    /\ \E write_ok \in MayFail, unlink_ok \in MayFail,
          md_ok \in (IF req[r].file_extension = ExtMd THEN BOOLEAN ELSE {TRUE}) :
         LET up     == req[r].upload
             path   == NewTempName(fs, req[r].file_extension)
             loaded == Session_load_file(file_chat, TRUE, TRUE, path, up.body, md_ok)
             called == write_ok /\ loaded[1] /\ ~NoContent(loaded[2])
         IN  /\ \E llm \in (IF called THEN outcomes ELSE {NotCalled}) :
                  LET h == AfterRead(file_chat, fs, r, up, path, write_ok, md_ok,
                                     llm, unlink_ok)
                  IN  /\ file_chat' = h.session
                      /\ fs' = h.files
                      /\ last' = h.outcome
                      /\ req' = [req EXCEPT ![r] = Idle]
                      /\ recent_load' = IF h.outcome.load_ok
                                        THEN DocumentOf(path, up.body, md_ok)
                                        ELSE recent_load

Resume(r) == ResumeWith(r, LlmOutcomes)

\* A derived operation called on the session directly.
SessionOutcome(op, result) ==
    [op |-> op, text |-> result.text, calls |-> result.calls, sent |-> result.sent]

\* The derived operations are called by the interactive driver, on a session
\* no upload is suspended on.
NoUploadSuspended == \A r \in Reqs : req[r].pc = "idle"

FixedQuestion(op) ==
    /\ NoUploadSuspended
    /\ \E llm \in AskOutcomes :
         last' = SessionOutcome(op, Session_fixed_question(file_chat, op, llm))
    /\ UNCHANGED <<file_chat, fs, req, recent_load>>

AskAboutFile ==
    /\ NoUploadSuspended
    /\ \E q \in Questions, llm \in AskOutcomes :
         last' = SessionOutcome("ask_about_file", Session_ask_about_file(file_chat, q, llm))
    /\ UNCHANGED <<file_chat, fs, req, recent_load>>

ExtractSections ==
    /\ NoUploadSuspended
    /\ \E llm \in { [raw |-> TObj(<<Sec(OneGood)>>)], [exc |-> <<"timeout">>] } :
         last' = SessionOutcome("extract_document_sections",
                                Session_extract_document_sections(file_chat, llm))
    /\ UNCHANGED <<file_chat, fs, req, recent_load>>

\* Paths the user of the interactive driver types after "load".
Paths == Filenames \ {None}

\* Stands for the bytes of a file that is not there.
Absent == [enc |-> "none", fmt |-> "none", text |-> <<>>, size |-> 0]

\* What the caller of load_file saw and the session before the call.
LoadOutcome(path, exists, body, before, returned, result) ==
    [op |-> "load_file", path |-> path, exists |-> exists, body |-> body,
     before |-> before, returned |-> returned, result |-> result]

\* "load <path>" of the interactive driver: OllamaFileChat.load_file on a
\* path of the user's.  Whether the path exists, what the file holds, whether
\* the structured Markdown loader works and whether the path is still there
\* when get_file_info looks at it are the environment's.
LoadFile(path) ==
    /\ NoUploadSuspended
    /\ \E exists \in BOOLEAN :
       \E body \in (IF exists THEN Bodies ELSE {Absent}),
          info_exists \in (IF exists THEN BOOLEAN ELSE {FALSE}),
          md_ok \in (IF exists /\ Lower(PathSuffix(path)) = ExtMd
                     THEN BOOLEAN ELSE {TRUE}) :
         LET result == FileProcessor_load_file(exists, path, body, md_ok)
             loaded == Session_load_file(file_chat, exists, info_exists,
                                         path, body, md_ok)
         IN  /\ file_chat' = loaded[2]
             /\ last' = LoadOutcome(path, exists, body, file_chat, loaded[1], result)
             /\ recent_load' = IF loaded[1] THEN DocumentOf(path, body, md_ok)
                                ELSE recent_load
    /\ UNCHANGED <<fs, req>>

Next ==
    \/ \E r \in SerialReqs, up \in Uploads : Begin(r, up)
    \/ \E r \in SerialReqs : Resume(r)
    \/ \E op \in FixedQuestionOps : FixedQuestion(op)
    \/ AskAboutFile
    \/ ExtractSections

Spec == Init /\ [][Next]_vars

\* Uploads of clients that do not wait for each other: text files and a PDF
\* with different contents and sizes, and a file of a format not supported.
ConcurrentUploads ==
    { u \in Uploads :
        \/ u.filename = <<"a", ".", "t", "x", "t">> /\ u.body.fmt = "plain"
        \/ u.filename = <<"R", ".", "P", "D", "F">> /\ u.body.fmt = "pdf"
        \/ u.filename = <<"d", ".", "c", "s", "v">> }

\* The backend's behaviour on their calls: a well-formed answer, a failure.
ConcurrentOutcomes == { [raw |-> TObj(<<Sec(OneGood)>>)], [exc |-> <<"timeout">>] }

\* The service with clients that do not wait: several requests in flight,
\* each suspended at its await and resumed in any order by the event loop.
NextConcurrent ==
    \/ \E r \in Reqs, up \in ConcurrentUploads : Begin(r, up)
    \/ \E r \in Reqs : ResumeWith(r, ConcurrentOutcomes)

SpecConcurrent == Init /\ [][NextConcurrent]_vars

\* The interactive driver: one session, loads and derived operations in any
\* order.
NextSession ==
    \/ \E path \in Paths : LoadFile(path)
    \/ \E op \in FixedQuestionOps : FixedQuestion(op)
    \/ AskAboutFile
    \/ ExtractSections

SpecSession == Init /\ [][NextSession]_vars

-----------------------------------------------------------------------------
(* Properties *)

\* The most recent operation was an upload, answered.
UploadDone == last.op = "upload"

\* ... and its handler got a text from extract_document_sections.
Extracted == UploadDone /\ last.extracted

Extraction == last.extraction[1]
RawText == Extraction.text
Parsed == json_loads(RawText)
Response == last.response
Succeeded == UploadDone /\ Response.status = 200

FiveExtensions == {ExtTxt, ExtMd, ExtPdf, ExtDocx, ExtDoc}

\* The lower-cased extension of each file name the uploads use.
ExtensionOf(filename) ==
    CASE filename = <<"a", ".", "t", "x", "t">>      -> <<".", "t", "x", "t">>
      [] filename = <<"n", ".", "m", "d">>           -> <<".", "m", "d">>
      [] filename = <<"R", ".", "P", "D", "F">>      -> <<".", "p", "d", "f">>
      [] filename = <<"w", ".", "d", "o", "c", "x">> -> <<".", "d", "o", "c", "x">>
      [] filename = <<"o", ".", "d", "o", "c">>      -> <<".", "d", "o", "c">>
      [] filename = <<"d", ".", "c", "s", "v">>      -> <<".", "c", "s", "v">>
      [] OTHER -> <<>>

\* An element with an integer index and string title and content.
WellTypedElement(e) ==
    /\ IsObj(e)
    /\ {"index", "title", "content"} \subseteq DOMAIN e.obj
    /\ IsInt(e.obj["index"])
    /\ IsStr(e.obj["title"])
    /\ IsStr(e.obj["content"])

HasSectionsArray(v) ==
    IsObj(v) /\ "sections" \in DOMAIN v.obj /\ IsArr(v.obj["sections"])

HasErrorKey(v) == IsObj(v) /\ "error" \in DOMAIN v.obj

\* C1: every upload that created a temporary file has it removed by the time
\* the handler has answered, whatever the exit path.
C1_TempFileRemoved ==
    UploadDone /\ last.created # None => last.created \notin fs

\* C2: an upload whose lower-cased extension is not one of the five gets a
\* 4xx answer whose detail names that extension and lists the five.
C2_UnsupportedRejected ==
    UploadDone /\ ExtensionOf(last.upload.filename) \notin FiveExtensions =>
        /\ Response.status \in 400..499
        /\ Response.detail.kind = "unsupported format"
        /\ Response.detail.ext = ExtensionOf(last.upload.filename)
        /\ Len(Response.detail.formats) = 5
        /\ { Response.detail.formats[i] : i \in 1..5 } = FiveExtensions

C2_Witness ==
    /\ UploadDone
    /\ last.upload.filename = <<"d", ".", "c", "s", "v">>
    /\ Response.status = 400
    /\ Response.detail.ext = <<".", "c", "s", "v">>

\* C3: model output that parses to an object with an error key is answered
\* with an error carrying that key's value, with or without a sections key,
\* and no section is built.
C3_ErrorKeyFails ==
    Extracted /\ Parsed.ok /\ HasErrorKey(Parsed.val) =>
        /\ Response.status = 500
        /\ Response.detail.kind = "model error"
        /\ Response.detail.error = Parsed.val.obj["error"]
        /\ last.built = 0

C3_Witness ==
    /\ Extracted /\ Parsed.ok /\ HasErrorKey(Parsed.val)
    /\ HasSectionsArray(Parsed.val)
    /\ Len(Parsed.val.obj["sections"].arr) > 0
    /\ Response.status = 500
    /\ Response.detail.kind = "model error"

\* C4: model output that parses but has no sections key is never answered
\* with a successful result.
C4_MissingSectionsFails ==
    Extracted /\ Parsed.ok /\ ~(IsObj(Parsed.val) /\ "sections" \in DOMAIN Parsed.val.obj)
        => Response.status # 200

\* C5: if any element of the sections array lacks index, title or content,
\* or has a non-integer index or a non-string title or content, the call is
\* answered with an error.
C5_BadElementFailsCall ==
    /\ Extracted /\ Parsed.ok /\ HasSectionsArray(Parsed.val) /\ ~HasErrorKey(Parsed.val)
    /\ \E i \in 1..Len(Parsed.val.obj["sections"].arr) :
         ~WellTypedElement(Parsed.val.obj["sections"].arr[i])
    => Response.status # 200

\* C6: unparseable model output is answered with an error carrying the parse
\* error and at most the first 200 characters of the output, and a successful
\* answer with no sections comes only from an object holding a sections
\* array.
C6_ParseFailureReported ==
    Extracted =>
        /\ ~Parsed.ok =>
              /\ Response.status = 500
              /\ Response.detail.kind = "bad model output"
              /\ Response.detail.exc = Parsed.exc
              /\ Len(Response.detail.excerpt) <= 200
              /\ Response.detail.excerpt = SubSeq(RawText, 1, Len(Response.detail.excerpt))
        /\ Response.status = 200 /\ Response.sections = <<>> =>
              Parsed.ok /\ HasSectionsArray(Parsed.val)

\* The model output is as the prompt asks: an object with a sections array
\* of well-typed elements, and no error.
WellTypedOutput ==
    /\ Parsed.ok /\ HasSectionsArray(Parsed.val) /\ ~HasErrorKey(Parsed.val)
    /\ \A i \in 1..Len(Parsed.val.obj["sections"].arr) :
         WellTypedElement(Parsed.val.obj["sections"].arr[i])

\* C7: well-typed model output is answered successfully with exactly the
\* model's sections: same length, same order, index, title and content
\* unchanged; an empty array gives a success with no sections.
C7_SectionsPassedThrough ==
    Extracted /\ WellTypedOutput =>
        LET given == Parsed.val.obj["sections"].arr IN
        /\ Response.status = 200
        /\ Response.processing_status = "success"
        /\ Len(Response.sections) = Len(given)
        /\ \A i \in 1..Len(given) :
             Response.sections[i] = [index   |-> given[i].obj["index"].int,
                                     title   |-> given[i].obj["title"].str,
                                     content |-> given[i].obj["content"].str]

C7_Witness ==
    /\ Extracted /\ WellTypedOutput /\ Succeeded
    /\ Len(Response.sections) = 2
    /\ Response.sections[1] = [index |-> 2, title |-> "B", content |-> ""]
    /\ Response.sections[2] = [index |-> 1, title |-> "A", content |-> "x"]

DerivedOps == FixedQuestionOps \cup {"ask_about_file", "extract_document_sections"}

\* C8: on a session with no document loaded, every derived operation returns
\* the same please-load-first reply and does not call the model.
C8_AllReplyPleaseLoad ==
    last.op \in DerivedOps /\ file_chat.current_file_content = None =>
        last.text = PleaseLoadText /\ last.calls = 0

\* C8, amended: on a session with no document loaded, no derived operation
\* calls the model; the four ask-style operations return the please-load-first
\* reply and extract_document_sections returns the text {"sections": []}.
C8_NoDocumentReplies ==
    last.op \in DerivedOps /\ file_chat.current_file_content = None =>
        /\ last.calls = 0
        /\ last.sent = <<>>
        /\ last.op # "extract_document_sections" => last.text = PleaseLoadText
        /\ last.op = "extract_document_sections" =>
              /\ last.text # PleaseLoadText
              /\ json_loads(last.text) = [ok |-> TRUE, val |-> JObj([sections |-> JArr(<<>>)])]

C8_Witness ==
    /\ last.op = "extract_document_sections"
    /\ file_chat.current_file_content = None
    /\ last.calls = 0
    /\ last.text = EmptySectionsText

\* C9: an upload whose load succeeded sends exactly one request to the model,
\* and a failure of that request is answered with a 5xx error.
C9_ExactlyOneRequest ==
    UploadDone /\ last.load_ok =>
        /\ Extraction.calls = 1
        /\ Extraction.raised => Response.status \in 500..599

\* The index the model gave: an integer, or digits read as one.
GivenIndex(e) ==
    IF IsInt(e.obj["index"]) THEN e.obj["index"].int
    ELSE CASE e.obj["index"].str = "1" -> 1
           [] e.obj["index"].str = "2" -> 2
           [] e.obj["index"].str = "3" -> 3

\* The indices of the model's sections array, in its order.
GivenIndices ==
    IF Parsed.ok /\ HasSectionsArray(Parsed.val)
    THEN [i \in 1..Len(Parsed.val.obj["sections"].arr) |->
              GivenIndex(Parsed.val.obj["sections"].arr[i])]
    ELSE <<>>

Contiguous(indices) == \A i \in 1..Len(indices) : indices[i] = i

LoadDone == last.op = "load_file"

\* C11: after any sequence of load_file calls the session holds the content
\* and the path of the most recent call that returned True (nothing before
\* the first such call); a call that returns False changes neither field.
C11_HoldsMostRecentLoad ==
    /\ file_chat = recent_load
    /\ (LoadDone /\ ~last.returned) => file_chat = last.before

\* C12: once the upload handler has answered a request whose document it
\* loaded, the session holds no content and its path is not the request's
\* temporary file, so that no derived operation called afterwards sends an
\* uploaded document to the model.
C12_DocumentDiscarded ==
    /\ (UploadDone /\ last.load_ok) =>
          /\ file_chat.current_file_content = None
          /\ file_chat.current_file_path # last.created
    /\ last.op \in DerivedOps => last.calls = 0

\* The requests other than the one just answered.
OtherReqs == Reqs \ {last.req}

\* C13: with several requests in flight, the document text sent to the model
\* for a request is the text of that request's own upload, and the file name
\* and size in its response are those of its own upload.
C13_OwnDocument ==
    /\ (Extracted /\ Extraction.calls = 1) =>
          \E md_ok \in BOOLEAN :
             LET own == FileProcessor_load_file(TRUE, last.created,
                                                last.upload.body, md_ok)
             IN  own.ok /\ Extraction.sent[1].human = own.val
    /\ Succeeded =>
          /\ Response.file_name = last.upload.filename
          /\ Response.file_size = FormatKB(last.upload.body.size)

\* A request is answered from its own document while another request, with
\* a different document, is suspended at its read.
C13_Witness ==
    /\ Succeeded /\ Extracted /\ Extraction.calls = 1
    /\ Extraction.sent[1].human = last.upload.body.text
    /\ \E o \in OtherReqs :
          /\ req[o].pc = "reading"
          /\ req[o].upload.body.text # last.upload.body.text
          /\ req[o].upload.body.size # last.upload.body.size

\* The format-specific loaders.
Loaders == {"_load_text_file", "_load_markdown_file", "_load_pdf_file",
            "_load_word_file"}

\* The loaders the FileProcessor.load_file call just made went into.
Dispatched == { last.result.steps[i] : i \in DOMAIN last.result.steps } \cap Loaders

\* C14: FileProcessor.load_file goes into a loader only for an existing path
\* with one of the five extensions (and then into one); a missing path fails
\* as not found having examined nothing but its existence, and an existing
\* path with another extension fails as unsupported before any loader.
C14_ChecksBeforeDispatch ==
    LoadDone =>
      LET supported == ExtensionOf(last.path) \in FiveExtensions IN
      /\ (Dispatched # {}) <=> (last.exists /\ supported)
      /\ Cardinality(Dispatched) <= 1
      /\ ~last.exists =>
            /\ ~last.result.ok
            /\ last.result.exc = "FileNotFound"
            /\ last.result.steps = <<"os.path.exists">>
      /\ (last.exists /\ ~supported) =>
            /\ ~last.result.ok
            /\ last.result.exc = "UnsupportedType"
            /\ last.result.steps = <<"os.path.exists", "suffix">>

\* A missing path with an unsupported extension is reported as not found.
C14_Witness ==
    /\ LoadDone
    /\ ~last.exists
    /\ last.path = <<"d", ".", "c", "s", "v">>
    /\ last.result.exc = "FileNotFound"
    /\ ~last.returned

====
